---- MODULE Spec2Model ----
(***************************************************************************)
(* Model of the LCD1602A-over-PCF8574 I2C driver (lcd1602a-i2c.c).         *)
(*                                                                         *)
(* State: the fields power, light and lock of struct lcd1602a_t, the       *)
(* position of every thread of control inside the handler it runs, and    *)
(* history variables that record what the I2C transport has seen.         *)
(***************************************************************************)
EXTENDS Integers, Sequences, FiniteSets, TLC

\* ------------------------------------------------------------------ bounds
\* Number of file/attribute calls that may be started in one behaviour.
MaxCalls == 2
\* Length of the over-long text written to the device file (> LCD_CELLS).
LongLen == 17
\* Number of stores of a text of ScanTexts in one behaviour.
ScanCalls == 1
\* Number of calls in a behaviour that follows lcd1602a_probe step by step.
AttachCalls == 1

\* ------------------------------------------------- PCF8574 line mapping
GPIO0 == 1
GPIO2 == 4
GPIO3 == 8
RS_PIN == GPIO0
E_PIN == GPIO2
K_PIN == GPIO3

\* ------------------------------------------------------ list of commands
CMD_LCD_CLEAR == 1
CMD_RETURN_CURSOR == 2
CMD_SHIFT_CURSOR_R == 6
CMD_LCD_POWEROFF == 8
CMD_REMOVE_CURSOR == 12
CMD_LINE_CURSOR == 14
CMD_4BIT_2ROWS == 40

\* The `count > 16` clamp of lcd1602a_write.
LCD_CELLS == 16
\* -EFAULT
EFAULT == 14

\* ------------------------------------------------------- u8 bit operators
Bit(x, i) == (x \div (2 ^ i)) % 2

RECURSIVE OrBits(_, _, _)
OrBits(x, y, i) ==
    IF i < 0 THEN 0
    ELSE (2 ^ i) * (IF Bit(x, i) + Bit(y, i) > 0 THEN 1 ELSE 0) + OrBits(x, y, i - 1)

RECURSIVE AndBits(_, _, _)
AndBits(x, y, i) ==
    IF i < 0 THEN 0
    ELSE (2 ^ i) * (Bit(x, i) * Bit(y, i)) + AndBits(x, y, i - 1)

\* x | y and x & y on u8 values, ~x as a u8
BitOr(x, y) == OrBits(x, y, 7)
BitAnd(x, y) == AndBits(x, y, 7)
BitNot(x) == 255 - x
\* (u8) (x << 4)
Shl4(x) == (x * 16) % 256

\* -------------------------------------------------------------- threads
Callers == {"t1", "t2"}
Threads == {"probe"} \cup Callers
NoThread == "none"

VARIABLES
    power,      \* priv->power
    light,      \* priv->light
    lock,       \* priv->lock: the thread that holds the mutex, or NoThread
    registered, \* misc_register() has made the device file available
    faulty,     \* the I2C adapter can fail an i2c_smbus_write_byte
    attached,   \* lcd1602a_probe() has returned 0
    pc,         \* pc[t]: position of thread t in the handler it runs
    sq,         \* sq[t]: lifecycle sequence t is inside ("on", "off", "none")
    step,       \* step[t]: index of the next statement of that sequence
    sb,         \* sb[t]: byte transfer t is inside ("cmd", "chr", "none")
    ph,         \* ph[t]: position inside the byte transfer (0..5)
    byte,       \* byte[t]: the cmd / ch argument of the byte transfer
    data,       \* data[t]: the local u8 data of the byte transfer
    arg,        \* arg[t]: the arguments of the call t runs
    count,      \* count[t]: the local count of lcd1602a_write
    idx,        \* idx[t]: the local i of lcd1602a_write
    nwr,        \* nwr[t]: transport writes t issued in its current/last call
    err,        \* err[t]: what became of a failed transport write of that call
    info,       \* info[t]: what was observed when the current call of t started
    bus,        \* transport writes since attach, oldest first: [w, v]
    hist,       \* completed calls, in order of return
    calls       \* number of calls started

vars == <<power, light, lock, registered, faulty, attached, pc, sq, step, sb, ph,
          byte, data, arg, count, idx, nwr, err, info, bus, hist, calls>>

\* ---------------------------------------------------------------- inputs
\* Texts written to the device file.
TextHI == <<72, 73>>
TextLong == [i \in 1..LongLen |-> 64 + i]

\* A write(2) call: the text at buf, whether access_ok(buf, count) holds, and
\* how many leading octets of buf get_user() can read.
WriteArgs ==
    { [op |-> "write", txt |-> TextHI, ok |-> TRUE, rd |-> 2],
      [op |-> "write", txt |-> TextLong, ok |-> TRUE, rd |-> LongLen],
      [op |-> "write", txt |-> << >>, ok |-> TRUE, rd |-> 0],
      [op |-> "write", txt |-> TextHI, ok |-> TRUE, rd |-> 1],
      [op |-> "write", txt |-> TextHI, ok |-> FALSE, rd |-> 0] }

\* The write(2) calls made in the behaviours that start inside lcd1602a_probe.
EarlyWriteArgs == {a \in WriteArgs : a.txt = TextHI /\ a.rd \in {0, 2}}

\* Texts stored to the lcd_power attribute.
StoreArgs ==
    { [op |-> "store", txt |-> <<"0">>],
      [op |-> "store", txt |-> <<"1">>],
      [op |-> "store", txt |-> <<"x">>] }

\* Further texts stored to the attribute: signs, white space, trailing
\* characters, leading zeros, and values at and beyond the range of int.
ScanTexts ==
    { <<"0">>, <<"1">>, <<"x">>, <<"\n">>, <<"-">>, <<"-", "1">>, <<"0", "0">>,
      <<"1", "0">>, <<" ", "7">>, <<"1", "\n">>, <<"0", "x">>, <<"x", "1">>,
      <<"2", "1", "4", "7", "4", "8", "3", "6", "4", "8">>,
      <<"4", "2", "9", "4", "9", "6", "7", "2", "9", "6">>,
      <<"4", "2", "9", "4", "9", "6", "7", "2", "9", "7">> }
ScanStoreArgs == {[op |-> "store", txt |-> x] : x \in ScanTexts}

ReadArg == [op |-> "read"]
NoArg == [op |-> "none"]

\* --------------------------------------------------- sscanf(buf, "%d", &code)
IsSpace(c) == c \in {" ", "\n", "\t"}
IsDigit(c) == c \in {"0", "1", "2", "3", "4", "5", "6", "7", "8", "9"}
DigitVal(c) ==
    CASE c = "0" -> 0 [] c = "1" -> 1 [] c = "2" -> 2 [] c = "3" -> 3 [] c = "4" -> 4
      [] c = "5" -> 5 [] c = "6" -> 6 [] c = "7" -> 7 [] c = "8" -> 8 [] c = "9" -> 9

RECURSIVE SkipSpaces(_)
SkipSpaces(s) == IF s # << >> /\ IsSpace(Head(s)) THEN SkipSpaces(Tail(s)) ELSE s

\* The low 32 bits of 10 * acc + d, acc and the result held as two 16-bit
\* halves <<high, low>>: the conversion accumulates without an overflow check
\* and the store through the int pointer keeps the low 32 bits.
U32MulAdd10(acc, d) ==
    LET lo == 10 * acc[2] + d
        hi == 10 * acc[1] + (lo \div 65536)
    IN  <<hi % 65536, lo % 65536>>

RECURSIVE ParseDigits(_, _)
ParseDigits(s, acc) ==
    IF s # << >> /\ IsDigit(Head(s))
    THEN ParseDigits(Tail(s), U32MulAdd10(acc, DigitVal(Head(s))))
    ELSE acc

\* The int whose 32 bits are the halves h.
ToInt(h) == IF h[1] >= 32768 THEN (h[1] - 65536) * 65536 + h[2] ELSE h[1] * 65536 + h[2]
\* -x as an int.
NegInt(x) == IF x = -2147483647 - 1 THEN x ELSE -x

\* ScanInt that takes a '-' for the end of the number.
ScanInt_NoSign(txt, dflt) ==
    LET s == SkipSpaces(txt)
    IN  IF s = << >> \/ ~IsDigit(Head(s)) THEN dflt
        ELSE ToInt(ParseDigits(s, <<0, 0>>))

\* The value of code after sscanf(buf, "%d", &code) when it held dflt before:
\* leading white space is skipped, a '-' is accepted, and without a digit
\* nothing is converted and code keeps its value.
ScanInt(txt, dflt) ==
    LET s == SkipSpaces(txt)
        neg == s # << >> /\ Head(s) = "-"
        d == IF neg THEN Tail(s) ELSE s
    IN  IF d = << >> \/ ~IsDigit(Head(d)) THEN dflt
        ELSE IF neg THEN NegInt(ToInt(ParseDigits(d, <<0, 0>>)))
             ELSE ToInt(ParseDigits(d, <<0, 0>>))

\* ------------------------------------------------------ lifecycle sequences
Set(f, v) == [op |-> "set", field |-> f, on |-> v, cmd |-> 0]
Cmd(c) == [op |-> "cmd", field |-> "none", on |-> FALSE, cmd |-> c]

\* lcd1602a_poweron without the assignment to priv->light.
lcd1602a_poweron_NoLight ==
    << Set("power", TRUE),
       Cmd(CMD_LCD_CLEAR),
       Cmd(CMD_RETURN_CURSOR),
       Cmd(CMD_4BIT_2ROWS),
       Cmd(CMD_LINE_CURSOR),
       Cmd(CMD_REMOVE_CURSOR),
       Cmd(CMD_SHIFT_CURSOR_R),
       Cmd(CMD_LCD_CLEAR) >>

\* lcd1602a_poweron with priv->light set before priv->power.
lcd1602a_poweron_LightFirst ==
    << Set("light", TRUE),
       Set("power", TRUE),
       Cmd(CMD_LCD_CLEAR),
       Cmd(CMD_RETURN_CURSOR),
       Cmd(CMD_4BIT_2ROWS),
       Cmd(CMD_LINE_CURSOR),
       Cmd(CMD_REMOVE_CURSOR),
       Cmd(CMD_SHIFT_CURSOR_R),
       Cmd(CMD_LCD_CLEAR) >>

\* lcd1602a_poweron with CMD_SHIFT_CURSOR_R sent before CMD_LINE_CURSOR.
lcd1602a_poweron_EntryFirst ==
    << Set("power", TRUE),
       Set("light", TRUE),
       Cmd(CMD_LCD_CLEAR),
       Cmd(CMD_RETURN_CURSOR),
       Cmd(CMD_4BIT_2ROWS),
       Cmd(CMD_SHIFT_CURSOR_R),
       Cmd(CMD_LINE_CURSOR),
       Cmd(CMD_REMOVE_CURSOR),
       Cmd(CMD_LCD_CLEAR) >>

\* The statements of lcd1602a_poweron, in order (the udelays change no state).
lcd1602a_poweron ==
    << Set("power", TRUE),
       Set("light", TRUE),
       Cmd(CMD_LCD_CLEAR),
       Cmd(CMD_RETURN_CURSOR),
       Cmd(CMD_4BIT_2ROWS),
       Cmd(CMD_LINE_CURSOR),
       Cmd(CMD_REMOVE_CURSOR),
       Cmd(CMD_SHIFT_CURSOR_R),
       Cmd(CMD_LCD_CLEAR) >>

\* lcd1602a_poweroff without the clearing of priv->light.
lcd1602a_poweroff_KeepsLight ==
    << Set("power", TRUE),
       Set("light", TRUE),
       Cmd(CMD_LCD_CLEAR),
       Cmd(CMD_RETURN_CURSOR),
       Cmd(CMD_LCD_POWEROFF),
       Set("power", FALSE) >>

\* lcd1602a_poweroff with priv->light cleared before the first command.
lcd1602a_poweroff_DarkFirst ==
    << Set("power", TRUE),
       Set("light", TRUE),
       Set("light", FALSE),
       Cmd(CMD_LCD_CLEAR),
       Cmd(CMD_RETURN_CURSOR),
       Cmd(CMD_LCD_POWEROFF),
       Set("power", FALSE) >>

\* lcd1602a_poweroff without its last assignment.
lcd1602a_poweroff_KeepsPower ==
    << Set("power", TRUE),
       Set("light", TRUE),
       Cmd(CMD_LCD_CLEAR),
       Cmd(CMD_RETURN_CURSOR),
       Set("light", FALSE),
       Cmd(CMD_LCD_POWEROFF) >>

\* The statements of lcd1602a_poweroff, in order.
lcd1602a_poweroff ==
    << Set("power", TRUE),
       Set("light", TRUE),
       Cmd(CMD_LCD_CLEAR),
       Cmd(CMD_RETURN_CURSOR),
       Set("light", FALSE),
       Cmd(CMD_LCD_POWEROFF),
       Set("power", FALSE) >>

Prog(s) == IF s = "on" THEN lcd1602a_poweron ELSE lcd1602a_poweroff

\* ------------------------------------------------------------ initial state
NoInfo == [at |-> 0, alone |-> FALSE, q |-> <<FALSE, FALSE>>, b0 |-> -1,
           pw |-> "unread", lk |-> -1, lq |-> <<FALSE, FALSE>>]

\* No thread is inside a lifecycle sequence and nothing has been recorded.
Fresh ==
    /\ sq = [t \in Threads |-> "none"]
    /\ step = [t \in Threads |-> 0]
    /\ ph = [t \in Threads |-> 0]
    /\ data = [t \in Threads |-> 0]
    /\ count = [t \in Threads |-> 0]
    /\ idx = [t \in Threads |-> 0]
    /\ nwr = [t \in Threads |-> 0]
    /\ err = [t \in Threads |-> "none"]
    /\ info = [t \in Threads |-> NoInfo]
    /\ bus = << >>
    /\ hist = << >>
    /\ calls = 0

\* No thread is inside a call or a byte transfer and the mutex is free.
Idle ==
    /\ lock = NoThread
    /\ sb = [t \in Threads |-> "none"]
    /\ byte = [t \in Threads |-> 0]
    /\ arg = [t \in Threads |-> NoArg]

\* lcd1602a_probe() has allocated the zeroed private data and is about to
\* initialise the mutex; nothing has been sent yet.
InitProbe ==
    /\ Fresh
    /\ Idle
    /\ power = FALSE
    /\ light = FALSE
    /\ registered = FALSE
    /\ faulty = FALSE
    /\ attached = FALSE
    /\ pc = [t \in Threads |-> IF t = "probe" THEN "p_init" ELSE "idle"]

\* The driver once lcd1602a_probe has returned 0 with no call started yet: the
\* PowerOn of probe has left power and light set.
Init ==
    /\ Fresh
    /\ Idle
    /\ power = TRUE
    /\ light = TRUE
    /\ registered = TRUE
    /\ faulty = FALSE
    /\ attached = TRUE
    /\ pc = [t \in Threads |-> IF t = "probe" THEN "p_done" ELSE "idle"]

\* -------------------------------------------------------------- helpers
\* No call is in progress and the mutex is free.
Quiescent ==
    /\ attached
    /\ lock = NoThread
    /\ \A t \in Callers : pc[t] = "idle"

\* Thread t is at a top-level statement of its handler (inside neither a
\* lifecycle sequence nor a byte transfer).
AtTop(t) == sq[t] = "none" /\ sb[t] = "none"

\* What err[t] becomes when t issues a transport write that succeeds (ok) or
\* fails: "failed" once a write of the call has returned an error, "ignored"
\* once the call has issued another write after that.
AfterWrite(e, ok) ==
    IF e # "none" THEN "ignored" ELSE IF ok THEN "none" ELSE "failed"

\* lcd1602a_write_byte(): one i2c_smbus_write_byte of v by thread t.  bus holds
\* the writes the driver issues; the value the function returns (0, or a
\* negative errno on a faulty adapter) is used by none of its callers.
lcd1602a_write_byte(t, v) ==
    /\ bus' = IF attached THEN Append(bus, [w |-> t, v |-> v]) ELSE bus
    /\ nwr' = [nwr EXCEPT ![t] = @ + 1]
    /\ \E ok \in (IF faulty THEN BOOLEAN ELSE {TRUE}) :
        err' = [err EXCEPT ![t] = AfterWrite(@, ok)]

\* Control after the current statement of the lifecycle sequence of t ends:
\* the next statement, or the return to the caller after the last one.
SeqAdvance(t) ==
    /\ step' = [step EXCEPT ![t] = @ + 1]
    /\ sq' = [sq EXCEPT ![t] = IF step[t] + 1 > Len(Prog(sq[t])) THEN "none" ELSE @]

\* What is recorded when a call starts: the number of calls that have returned,
\* and, when the driver is quiescent, power, light and the length of the bus.
StartInfo ==
    [at |-> Len(hist), alone |-> Quiescent,
     q |-> IF Quiescent THEN <<power, light>> ELSE <<FALSE, FALSE>>,
     b0 |-> IF Quiescent THEN Len(bus) ELSE -1,
     pw |-> "unread", lk |-> -1, lq |-> <<FALSE, FALSE>>]

\* What is recorded when the call of t takes the mutex: the length of the bus
\* and the values of power and light.
Locked(t) == [info EXCEPT ![t].lk = Len(bus), ![t].lq = <<power, light>>]

\* A call of t starts: reset the per-call history.
Begin(t, a) ==
    /\ calls < MaxCalls
    /\ pc[t] = "idle"
    /\ calls' = calls + 1
    /\ arg' = [arg EXCEPT ![t] = a]
    /\ nwr' = [nwr EXCEPT ![t] = 0]
    /\ err' = [err EXCEPT ![t] = "none"]
    /\ info' = [info EXCEPT ![t] = StartInfo]

\* The record of a call of t that returns r, given its final info i and the
\* number n of transport writes it made; for a call that took the mutex, also
\* the length of the bus and the values of power and light at its return;
\* solo tells that no other call is in progress at the return, err what
\* became of a failed transport write of the call.
Done(t, a, r, i, n) ==
    [t |-> t, arg |-> a, ret |-> r, at |-> i.at, alone |-> i.alone, q |-> i.q,
     b0 |-> i.b0, pw |-> i.pw, lk |-> i.lk, lq |-> i.lq,
     to |-> IF i.lk = -1 THEN -1 ELSE Len(bus), n |-> n,
     fin |-> IF i.lk = -1 THEN <<FALSE, FALSE>> ELSE <<power, light>>,
     solo |-> \A u \in Callers \ {t} : pc[u] = "idle",
     err |-> IF n = 0 THEN "none" ELSE err[t]]

\* -------------------------------------------------------- byte transfers
\* The nibble of b a half of the transfer presents on D4..D7:
\* (b & 0xf0) for the upper half, (b & 0x0f) << 4 for the lower half.
UpperBits(b) == BitAnd(b, 240)
LowerBits_NoShift(b) == BitAnd(b, 15)
LowerBits(b) == Shl4(BitAnd(b, 15))

\* data as lcd1602a_send_command builds it before the first write of a half.
CommandData(l, b, lower) ==
    LET d0 == 0
        d1 == IF l THEN BitOr(d0, K_PIN) ELSE d0
        d2 == BitOr(d1, IF lower THEN LowerBits(b) ELSE UpperBits(b))
    IN  BitOr(d2, E_PIN)

\* data as lcd1602a_put_char builds it before the first write of a half.
CharData(l, b, lower) ==
    LET d0 == 0
        d1 == IF l THEN BitOr(d0, K_PIN) ELSE d0
        d2 == BitOr(d1, IF lower THEN LowerBits(b) ELSE UpperBits(b))
        d3 == BitOr(d2, RS_PIN)
    IN  BitOr(d3, E_PIN)

\* data &= ~E_PIN
DropStrobe(d) == BitAnd(d, BitNot(E_PIN))

\* A half of a transfer starts: read priv->light and build data.
TransferLoad(t, kind, d) ==
    /\ sb[t] = kind
    /\ ph[t] \in {0, 3}
    /\ data' = [data EXCEPT ![t] = d]
    /\ ph' = [ph EXCEPT ![t] = @ + 1]
    /\ UNCHANGED <<power, light, lock, registered, faulty, attached, pc, sq, step, sb, byte,
                   arg, count, idx, nwr, err, info, bus, hist, calls>>

\* The first write of a half: data with E_PIN set.
TransferStrobe(t, kind) ==
    /\ sb[t] = kind
    /\ ph[t] \in {1, 4}
    /\ lcd1602a_write_byte(t, data[t])
    /\ ph' = [ph EXCEPT ![t] = @ + 1]
    /\ UNCHANGED <<power, light, lock, registered, faulty, attached, pc, sq, step, sb, byte,
                   data, arg, count, idx, info, hist, calls>>

\* The second write of a half: E_PIN is cleared and data written again; after
\* the lower half the function returns to its caller.
TransferLatch(t, kind) ==
    /\ sb[t] = kind
    /\ ph[t] \in {2, 5}
    /\ data' = [data EXCEPT ![t] = DropStrobe(@)]
    /\ lcd1602a_write_byte(t, DropStrobe(data[t]))
    /\ IF ph[t] = 2
       THEN /\ ph' = [ph EXCEPT ![t] = 3]
            /\ UNCHANGED <<sb, sq, step>>
       ELSE /\ ph' = [ph EXCEPT ![t] = 0]
            /\ sb' = [sb EXCEPT ![t] = "none"]
            /\ IF sq[t] # "none" THEN SeqAdvance(t) ELSE UNCHANGED <<sq, step>>
    /\ UNCHANGED <<power, light, lock, registered, faulty, attached, pc, byte, arg, count,
                   idx, info, hist, calls>>

SendCommandLoad(t) == TransferLoad(t, "cmd", CommandData(light, byte[t], ph[t] = 3))
SendCommandStrobe(t) == TransferStrobe(t, "cmd")
SendCommandLatch(t) == TransferLatch(t, "cmd")

PutCharLoad(t) == TransferLoad(t, "chr", CharData(light, byte[t], ph[t] = 3))
PutCharStrobe(t) == TransferStrobe(t, "chr")
PutCharLatch(t) == TransferLatch(t, "chr")

\* ------------------------------------------------- lifecycle sequence steps
\* Thread t executes the next statement of the lifecycle sequence named s:
\* an assignment to priv->power or priv->light, or a call of
\* lcd1602a_send_command.
RunStatement(t, s) ==
    LET st == Prog(s)[step[t]] IN
    /\ sq[t] = s
    /\ sb[t] = "none"
    /\ IF st.op = "set"
       THEN /\ power' = IF st.field = "power" THEN st.on ELSE power
            /\ light' = IF st.field = "light" THEN st.on ELSE light
            /\ SeqAdvance(t)
            /\ UNCHANGED <<sb, ph, byte>>
       ELSE /\ sb' = [sb EXCEPT ![t] = "cmd"]
            /\ byte' = [byte EXCEPT ![t] = st.cmd]
            /\ ph' = [ph EXCEPT ![t] = 0]
            /\ UNCHANGED <<power, light, sq, step>>
    /\ UNCHANGED <<lock, registered, faulty, attached, pc, data, arg, count, idx, nwr, err, info,
                   bus, hist, calls>>

PowerOnStep(t) == RunStatement(t, "on")
PowerOffStep(t) == RunStatement(t, "off")

\* ------------------------------------------------------- lcd1602a_write
Min(a, b) == IF a < b THEN a ELSE b

\* ClampCount without the clamp.
ClampCount_None(n) == n

\* count after `if (count > 16) count = 16;`
ClampCount(n) == IF n > LCD_CELLS THEN LCD_CELLS ELSE n

\* Entry of lcd1602a_write: access_ok(), then the clamp of count.
WriteCall(t, A) ==
    \E a \in A :
        /\ registered
        /\ Begin(t, a)
        /\ IF ~a.ok
           THEN /\ hist' = Append(hist, Done(t, a, -EFAULT,
                                   StartInfo, 0))
                /\ UNCHANGED <<pc, count, idx>>
           ELSE /\ count' = [count EXCEPT ![t] = ClampCount(Len(a.txt))]
                /\ idx' = [idx EXCEPT ![t] = 0]
                /\ pc' = [pc EXCEPT ![t] = "w_check"]
                /\ UNCHANGED hist
        /\ UNCHANGED <<power, light, lock, registered, faulty, attached, sq, step, sb, ph,
                       byte, data, bus>>

\* WriteCheckPower without the test of priv->power.
WriteCheckPower_Ignore(t) ==
    /\ pc[t] = "w_check"
    /\ pc' = [pc EXCEPT ![t] = "w_lock"]
    /\ info' = [info EXCEPT ![t].pw = IF power THEN "on" ELSE "off"]
    /\ UNCHANGED <<power, light, lock, registered, faulty, attached, sq, step, sb, ph, byte,
                   data, arg, count, idx, nwr, err, bus, hist, calls>>

\* `if (!priv->power) return 0;` -- read without the mutex.
WriteCheckPower(t) ==
    /\ pc[t] = "w_check"
    /\ IF ~power
       THEN /\ pc' = [pc EXCEPT ![t] = "idle"]
            /\ hist' = Append(hist, Done(t, arg[t], 0,
                                         [info[t] EXCEPT !.pw = "off"], nwr[t]))
            /\ info' = [info EXCEPT ![t].pw = "off"]
       ELSE /\ pc' = [pc EXCEPT ![t] = "w_lock"]
            /\ info' = [info EXCEPT ![t].pw = "on"]
            /\ UNCHANGED hist
    /\ UNCHANGED <<power, light, lock, registered, faulty, attached, sq, step, sb, ph, byte,
                   data, arg, count, idx, nwr, err, bus, calls>>

\* WriteLock without the call of lcd1602a_poweron.
WriteLock_NoPowerOn(t) ==
    /\ pc[t] = "w_lock"
    /\ lock = NoThread
    /\ lock' = t
    /\ pc' = [pc EXCEPT ![t] = "w_loop"]
    /\ info' = Locked(t)
    /\ UNCHANGED <<power, light, registered, faulty, attached, sq, step, sb, ph, byte, data,
                   arg, count, idx, nwr, err, bus, hist, calls>>

\* mutex_lock(&priv->lock); lcd1602a_poweron(priv);
WriteLock(t) ==
    /\ pc[t] = "w_lock"
    /\ lock = NoThread
    /\ lock' = t
    /\ sq' = [sq EXCEPT ![t] = "on"]
    /\ step' = [step EXCEPT ![t] = 1]
    /\ pc' = [pc EXCEPT ![t] = "w_loop"]
    /\ info' = Locked(t)
    /\ UNCHANGED <<power, light, registered, faulty, attached, sb, ph, byte, data, arg,
                   count, idx, nwr, err, bus, hist, calls>>

\* The loop head: `i < count`, get_user(ch, buf + i) and the call of
\* lcd1602a_put_char; a faulting get_user returns -EFAULT at once.
WriteLoop(t) ==
    /\ pc[t] = "w_loop"
    /\ AtTop(t)
    /\ IF idx[t] < count[t]
       THEN IF idx[t] >= arg[t].rd
            THEN /\ pc' = [pc EXCEPT ![t] = "idle"]
                 /\ hist' = Append(hist, Done(t, arg[t], -EFAULT, info[t], nwr[t]))
                 /\ UNCHANGED <<sb, byte, ph>>
            ELSE /\ sb' = [sb EXCEPT ![t] = "chr"]
                 /\ byte' = [byte EXCEPT ![t] = arg[t].txt[idx[t] + 1]]
                 /\ ph' = [ph EXCEPT ![t] = 0]
                 /\ pc' = [pc EXCEPT ![t] = "w_next"]
                 /\ UNCHANGED hist
       ELSE /\ pc' = [pc EXCEPT ![t] = "w_unlock"]
            /\ UNCHANGED <<sb, byte, ph, hist>>
    /\ UNCHANGED <<power, light, lock, registered, faulty, attached, sq, step, data, arg,
                   count, idx, nwr, err, info, bus, calls>>

\* i++ after lcd1602a_put_char has returned.
WriteNext(t) ==
    /\ pc[t] = "w_next"
    /\ AtTop(t)
    /\ idx' = [idx EXCEPT ![t] = @ + 1]
    /\ pc' = [pc EXCEPT ![t] = "w_loop"]
    /\ UNCHANGED <<power, light, lock, registered, faulty, attached, sq, step, sb, ph, byte,
                   data, arg, count, nwr, err, info, bus, hist, calls>>

\* mutex_unlock(&priv->lock); return count;
WriteUnlock(t) ==
    /\ pc[t] = "w_unlock"
    /\ lock' = NoThread
    /\ pc' = [pc EXCEPT ![t] = "idle"]
    /\ hist' = Append(hist, Done(t, arg[t], count[t], info[t], nwr[t]))
    /\ UNCHANGED <<power, light, registered, faulty, attached, sq, step, sb, ph, byte, data,
                   arg, count, idx, nwr, err, info, bus, calls>>

\* -------------------------------------------------------- lcd1602a_read
\* Read that clears priv->power.
Read_ClearsPower(t) ==
    /\ registered
    /\ Begin(t, ReadArg)
    /\ power' = FALSE
    /\ hist' = Append(hist, Done(t, ReadArg, 0,
                                 StartInfo, 0))
    /\ UNCHANGED <<light, lock, registered, faulty, attached, pc, sq, step, sb, ph,
                   byte, data, count, idx, bus>>

\* dev_info(...); return 0;
Read(t) ==
    /\ registered
    /\ Begin(t, ReadArg)
    /\ hist' = Append(hist, Done(t, ReadArg, 0,
                                 StartInfo, 0))
    /\ UNCHANGED <<power, light, lock, registered, faulty, attached, pc, sq, step, sb, ph,
                   byte, data, count, idx, bus>>

\* -------------------------------------------------- lcd1602a_power_store
\* Entry of lcd1602a_power_store.  The source declares the attribute with
\* DEVICE_ATTR but contains no call that creates it; attributes a driver
\* hands to the driver core appear once probe has returned, so the handler
\* is taken to be callable from then on.
StoreCall(t, A) ==
    \E a \in A :
        /\ attached
        /\ Begin(t, a)
        /\ pc' = [pc EXCEPT ![t] = "s_lock"]
        /\ UNCHANGED <<power, light, lock, registered, faulty, attached, sq, step, sb, ph,
                       byte, data, count, idx, bus, hist>>

\* StoreLock without waiting for the mutex to be free.
StoreLock_NoWait(t) ==
    /\ pc[t] = "s_lock"
    /\ lock' = t
    /\ pc' = [pc EXCEPT ![t] = "s_scan"]
    /\ info' = Locked(t)
    /\ UNCHANGED <<power, light, registered, faulty, attached, sq, step, sb, ph, byte, data,
                   arg, count, idx, nwr, err, bus, hist, calls>>

\* mutex_lock(&priv->lock);
StoreLock(t) ==
    /\ pc[t] = "s_lock"
    /\ lock = NoThread
    /\ lock' = t
    /\ pc' = [pc EXCEPT ![t] = "s_scan"]
    /\ info' = Locked(t)
    /\ UNCHANGED <<power, light, registered, faulty, attached, sq, step, sb, ph, byte, data,
                   arg, count, idx, nwr, err, bus, hist, calls>>

\* StoreScan that skips the PowerOff sequence when power is already clear.
StoreScan_SkipWhenOff(t) ==
    /\ pc[t] = "s_scan"
    /\ sq' = [sq EXCEPT ![t] = IF ScanInt(arg[t].txt, 0) # 0 THEN "on"
                                ELSE IF power THEN "off" ELSE "none"]
    /\ step' = [step EXCEPT ![t] = 1]
    /\ pc' = [pc EXCEPT ![t] = "s_unlock"]
    /\ UNCHANGED <<power, light, lock, registered, faulty, attached, sb, ph, byte, data, arg,
                   count, idx, nwr, err, info, bus, hist, calls>>

\* sscanf(buf, "%d", &code); if (!code) poweroff else poweron
StoreScan(t) ==
    /\ pc[t] = "s_scan"
    /\ sq' = [sq EXCEPT ![t] = IF ScanInt(arg[t].txt, 0) = 0 THEN "off" ELSE "on"]
    /\ step' = [step EXCEPT ![t] = 1]
    /\ pc' = [pc EXCEPT ![t] = "s_unlock"]
    /\ UNCHANGED <<power, light, lock, registered, faulty, attached, sb, ph, byte, data, arg,
                   count, idx, nwr, err, info, bus, hist, calls>>

\* mutex_unlock(&priv->lock); return count;
StoreUnlock(t) ==
    /\ pc[t] = "s_unlock"
    /\ AtTop(t)
    /\ lock' = NoThread
    /\ pc' = [pc EXCEPT ![t] = "idle"]
    /\ hist' = Append(hist, Done(t, arg[t], Len(arg[t].txt), info[t], nwr[t]))
    /\ UNCHANGED <<power, light, registered, faulty, attached, sq, step, sb, ph, byte, data,
                   arg, count, idx, nwr, err, info, bus, calls>>

\* -------------------------------------------------------- lcd1602a_probe
\* mutex_init(&priv->lock); priv->power = 0; priv->light = 0;
ProbeInit ==
    /\ pc["probe"] = "p_init"
    /\ lock' = NoThread
    /\ power' = FALSE
    /\ light' = FALSE
    /\ pc' = [pc EXCEPT !["probe"] = "p_register"]
    /\ UNCHANGED <<registered, faulty, attached, sq, step, sb, ph, byte, data, arg, count,
                   idx, nwr, err, info, bus, hist, calls>>

\* misc_register(): on failure probe returns the error.
ProbeRegister ==
    /\ pc["probe"] = "p_register"
    /\ \E ok \in BOOLEAN :
        /\ registered' = ok
        /\ faulty' = faulty
        /\ pc' = [pc EXCEPT !["probe"] = IF ok THEN "p_poweron" ELSE "p_failed"]
    /\ UNCHANGED <<power, light, lock, attached, sq, step, sb, ph, byte, data, arg,
                   count, idx, nwr, err, info, bus, hist, calls>>

\* ProbePowerOn without the call of lcd1602a_poweron.
ProbePowerOn_Skip ==
    /\ pc["probe"] = "p_poweron"
    /\ pc' = [pc EXCEPT !["probe"] = "p_return"]
    /\ UNCHANGED <<power, light, lock, registered, faulty, attached, sq, step, sb, ph,
                   byte, data, arg, count, idx, nwr, err, info, bus, hist, calls>>

\* lcd1602a_poweron(priv);
ProbePowerOn ==
    /\ pc["probe"] = "p_poweron"
    /\ sq' = [sq EXCEPT !["probe"] = "on"]
    /\ step' = [step EXCEPT !["probe"] = 1]
    /\ pc' = [pc EXCEPT !["probe"] = "p_return"]
    /\ UNCHANGED <<power, light, lock, registered, faulty, attached, sb, ph, byte, data, arg,
                   count, idx, nwr, err, info, bus, hist, calls>>

\* return ret;
ProbeReturn ==
    /\ pc["probe"] = "p_return"
    /\ AtTop("probe")
    /\ attached' = TRUE
    /\ pc' = [pc EXCEPT !["probe"] = "p_done"]
    /\ UNCHANGED <<power, light, lock, registered, faulty, sq, step, sb, ph, byte, data, arg,
                   count, idx, nwr, err, info, bus, hist, calls>>

\* ---------------------------------------------------------- specification
Probe == ProbeInit \/ ProbeRegister \/ ProbePowerOn \/ ProbeReturn

Sequence(t) ==
    \/ PowerOnStep(t)
    \/ PowerOffStep(t)
    \/ SendCommandLoad(t)
    \/ SendCommandStrobe(t)
    \/ SendCommandLatch(t)

Write(t, A) ==
    \/ WriteCall(t, A)
    \/ WriteCheckPower(t)
    \/ WriteLock(t)
    \/ WriteLoop(t)
    \/ PutCharLoad(t)
    \/ PutCharStrobe(t)
    \/ PutCharLatch(t)
    \/ WriteNext(t)
    \/ WriteUnlock(t)

Store(t, A) == StoreCall(t, A) \/ StoreLock(t) \/ StoreScan(t) \/ StoreUnlock(t)

\* A step of a caller of the device file or of the power attribute.
Call(t, A) == Sequence(t) \/ Write(t, A) \/ Store(t, StoreArgs) \/ Read(t)

Next == \E t \in Callers : Call(t, WriteArgs)

Spec == Init /\ [][Next]_vars

\* The driver from the entry of lcd1602a_probe on; the device file can be
\* used as soon as misc_register has succeeded.
NextProbe ==
    \/ Probe
    \/ Sequence("probe")
    \/ \E t \in Callers : Call(t, EarlyWriteArgs)

SpecProbe == InitProbe /\ [][NextProbe]_vars

\* The same with at most AttachCalls calls, made before, while or after
\* lcd1602a_probe runs its PowerOn.
NextAttach ==
    \/ Probe
    \/ Sequence("probe")
    \/ \E t \in Callers :
        /\ calls < AttachCalls \/ pc[t] # "idle"
        /\ Call(t, EarlyWriteArgs)

SpecAttach == InitProbe /\ [][NextAttach]_vars

\* One byte transfer on its own: thread t1, holding the mutex, enters
\* lcd1602a_send_command or lcd1602a_put_char with any byte, light set or clear.
InitTransfer ==
    /\ Fresh
    /\ power = TRUE
    /\ light \in BOOLEAN
    /\ registered = TRUE
    /\ faulty = FALSE
    /\ attached = TRUE
    /\ lock = "t1"
    /\ pc = [t \in Threads |-> IF t = "probe" THEN "p_done" ELSE "idle"]
    /\ \E k \in {"cmd", "chr"}, b \in 0..255 :
        /\ sb = [t \in Threads |-> IF t = "t1" THEN k ELSE "none"]
        /\ byte = [t \in Threads |-> IF t = "t1" THEN b ELSE 0]
        /\ arg = [t \in Threads |-> IF t = "t1" THEN [op |-> k] ELSE NoArg]

NextTransfer ==
    \E t \in Callers :
        \/ SendCommandLoad(t)
        \/ SendCommandStrobe(t)
        \/ SendCommandLatch(t)
        \/ PutCharLoad(t)
        \/ PutCharStrobe(t)
        \/ PutCharLatch(t)

SpecTransfer == InitTransfer /\ [][NextTransfer]_vars

\* The power attribute on its own, from any values of power and light.
InitLifecycle ==
    /\ Fresh
    /\ Idle
    /\ power \in BOOLEAN
    /\ light \in BOOLEAN
    /\ registered = TRUE
    /\ faulty = FALSE
    /\ attached = TRUE
    /\ pc = [t \in Threads |-> IF t = "probe" THEN "p_done" ELSE "idle"]

NextLifecycle == \E t \in Callers : Sequence(t) \/ Store(t, StoreArgs)

SpecLifecycle == InitLifecycle /\ [][NextLifecycle]_vars

\* The power attribute on its own, written with the texts of ScanTexts.
NextScan ==
    \E t \in Callers :
        \/ Sequence(t)
        \/ calls < ScanCalls /\ StoreCall(t, ScanStoreArgs)
        \/ StoreLock(t)
        \/ StoreScan(t)
        \/ StoreUnlock(t)

SpecScan == InitLifecycle /\ [][NextScan]_vars

\* The attached driver on an adapter whose writes can fail.
InitFault ==
    /\ Fresh
    /\ Idle
    /\ power = TRUE
    /\ light = TRUE
    /\ registered = TRUE
    /\ faulty = TRUE
    /\ attached = TRUE
    /\ pc = [t \in Threads |-> IF t = "probe" THEN "p_done" ELSE "idle"]

SpecFault == InitFault /\ [][Next]_vars

\* ------------------------------------------------- what the transport sees
Last(s) == s[Len(s)]

\* The values written to the transport after the first lo, up to the hi-th.
Values(lo, hi) == [j \in 1..(hi - lo) |-> bus[lo + j].v]

\* The writers of those values.
Writers(lo, hi) == {bus[j].w : j \in (lo + 1)..hi}

\* The expander value of one nibble transfer: the nibble on bits 4-7, isData
\* on bit 0, 0 on bit 1, the strobe on bit 2, the backlight on bit 3.
EncodeNibble(nibble, isData, backlightOn, strobe) ==
    16 * nibble + (IF isData THEN 1 ELSE 0) + (IF strobe THEN 4 ELSE 0)
        + (IF backlightOn THEN 8 ELSE 0)

\* The four transport writes of one byte b.
Quad(b, isData, backlightOn) ==
    << EncodeNibble(b \div 16, isData, backlightOn, TRUE),
       EncodeNibble(b \div 16, isData, backlightOn, FALSE),
       EncodeNibble(b % 16, isData, backlightOn, TRUE),
       EncodeNibble(b % 16, isData, backlightOn, FALSE) >>

\* The transport writes of the first n octets of txt sent as character data
\* with the backlight on.
CharBytes(txt, n) ==
    [j \in 1..(4 * n) |-> Quad(txt[((j - 1) \div 4) + 1], TRUE, TRUE)[((j - 1) % 4) + 1]]

\* The number of transport writes a transfer at position p has issued.
Written(kind, p) ==
    IF kind = "none" THEN 4
    ELSE CASE p \in {0, 1} -> 0 [] p = 2 -> 1 [] p \in {3, 4} -> 2 [] p = 5 -> 3

\* ------------------------------------------------------------------ C1
\* C1: one sendByte of any byte b, with isData and backlightOn either way,
\* issues exactly four transport writes: the high nibble with the strobe set,
\* the high nibble with the strobe clear, the low nibble with the strobe set,
\* the low nibble with the strobe clear, each as encodeNibble lays it out.  At
\* every point of the transfer the writes issued so far are the leading ones
\* of these four, and when it has returned all four have been issued.
C1_SendByteQuad ==
    Values(0, Len(bus)) =
        SubSeq(Quad(byte["t1"], arg["t1"].op = "chr", light), 1,
               Written(sb["t1"], ph["t1"]))

\* A transfer of 'H' as character data with the backlight on has returned.
C1_Witness ==
    /\ arg["t1"].op = "chr"
    /\ byte["t1"] = 72
    /\ light
    /\ sb["t1"] = "none"
    /\ Values(0, Len(bus)) = <<77, 73, 141, 137>>

\* ------------------------------------------------------------------ C2
IsStore(a) == a.op = "store"
IsWrite(a) == a.op = "write"
\* The lifecycle sequence a store of text txt runs.
Turns(a) == IF ScanInt(a.txt, 0) = 0 THEN "off" ELSE "on"

\* C2: the transport writes of a setPower call are never interleaved with
\* those of another call: from the moment the call takes the mutex the bus
\* holds its writes and only its writes, during the call and at its return,
\* so two concurrent setPower calls appear one whole sequence after the other.
C2_StoreNotInterleaved ==
    /\ \A t \in Callers :
        (IsStore(arg[t]) /\ pc[t] \in {"s_scan", "s_unlock"}) =>
            /\ Len(bus) - info[t].lk = nwr[t]
            /\ Writers(info[t].lk, Len(bus)) \subseteq {t}
    /\ \A i \in 1..Len(hist) :
        IsStore(hist[i].arg) =>
            /\ hist[i].to - hist[i].lk = hist[i].n
            /\ hist[i].n = IF Turns(hist[i].arg) = "on" THEN 28 ELSE 12
            /\ Writers(hist[i].lk, hist[i].to) = {hist[i].t}

\* Two setPower calls of different threads, the second started before the
\* first returned, have both returned.
C2_Witness ==
    /\ Len(hist) = 2
    /\ IsStore(hist[1].arg)
    /\ IsStore(hist[2].arg)
    /\ hist[1].t # hist[2].t
    /\ hist[2].at = 0
    /\ Turns(hist[1].arg) # Turns(hist[2].arg)

\* ------------------------------------------------------------------ C3
\* Thread t is inside a lifecycle sequence or a byte transfer: its next step
\* assigns power or light or writes to the transport.
DrivesHardware(t) == sq[t] # "none" \/ sb[t] # "none"

\* C3: every transport write and every assignment to power or light is made
\* by a thread that holds the mutex, the PowerOn of probe included.
C3_HardwareUnderLock == \A t \in Threads : DrivesHardware(t) => lock = t

\* ------------------------------------------------------------------ C4
\* The transport writes of the PowerOn and PowerOff sequences.
OnBytes ==
    Quad(CMD_LCD_CLEAR, FALSE, TRUE) \o Quad(CMD_RETURN_CURSOR, FALSE, TRUE)
        \o Quad(CMD_4BIT_2ROWS, FALSE, TRUE) \o Quad(CMD_LINE_CURSOR, FALSE, TRUE)
        \o Quad(CMD_REMOVE_CURSOR, FALSE, TRUE) \o Quad(CMD_SHIFT_CURSOR_R, FALSE, TRUE)
        \o Quad(CMD_LCD_CLEAR, FALSE, TRUE)
OffBytes ==
    Quad(CMD_LCD_CLEAR, FALSE, TRUE) \o Quad(CMD_RETURN_CURSOR, FALSE, TRUE)
        \o Quad(CMD_LCD_POWEROFF, FALSE, FALSE)

\* A write whose buffer is accessible and readable over its whole length.
Readable(a) == IsWrite(a) /\ a.ok /\ a.rd = Len(a.txt)

\* What a writeText of a and a setPower of a, run alone from a quiescent
\* state with power = p, return, send and leave behind.
AloneWrite(a, p) ==
    IF p
    THEN [ret |-> Min(Len(a.txt), LCD_CELLS),
          out |-> OnBytes \o CharBytes(a.txt, Min(Len(a.txt), LCD_CELLS)),
          fin |-> <<TRUE, TRUE>>]
    ELSE [ret |-> 0, out |-> << >>, fin |-> <<FALSE, FALSE>>]
AloneStore(a) ==
    IF Turns(a) = "on"
    THEN [ret |-> Len(a.txt), out |-> OnBytes, fin |-> <<TRUE, TRUE>>]
    ELSE [ret |-> Len(a.txt), out |-> OffBytes, fin |-> <<FALSE, FALSE>>]

\* The two serial orders of a writeText of w and a setPower of s from power = p.
WriteThenStore(w, s, p) ==
    [wret |-> AloneWrite(w, p).ret, sret |-> AloneStore(s).ret,
     out |-> AloneWrite(w, p).out \o AloneStore(s).out, fin |-> AloneStore(s).fin]
StoreThenWrite(w, s, p) ==
    LET mid == AloneStore(s).fin[1] IN
    [wret |-> AloneWrite(w, mid).ret, sret |-> AloneStore(s).ret,
     out |-> AloneStore(s).out \o AloneWrite(w, mid).out,
     fin |-> IF mid THEN AloneWrite(w, mid).fin ELSE AloneStore(s).fin]

\* The last two calls to return were one writeText and one setPower that ran
\* at the same time, the first of them started in a quiescent state, and the
\* driver is quiescent again.
OverlappedPair(h1, h2) ==
    /\ Quiescent
    /\ Len(hist) >= 2
    /\ h1 = hist[Len(hist) - 1]
    /\ h2 = hist[Len(hist)]
    /\ h1.at = Len(hist) - 2
    /\ h2.at = Len(hist) - 2
    /\ h1.alone # h2.alone
    /\ \/ Readable(h1.arg) /\ IsStore(h2.arg)
       \/ IsStore(h1.arg) /\ Readable(h2.arg)

\* C4: a writeText and a setPower that run at the same time from a quiescent
\* state return, send and leave behind what one of their two serial orders
\* does.
C4_WriteStoreSerializable ==
    \A i, j \in 1..Len(hist) :
        OverlappedPair(hist[i], hist[j]) =>
            LET w == IF IsWrite(hist[i].arg) THEN hist[i] ELSE hist[j]
                s == IF IsWrite(hist[i].arg) THEN hist[j] ELSE hist[i]
                first == IF hist[i].alone THEN hist[i] ELSE hist[j]
                seen == [wret |-> w.ret, sret |-> s.ret,
                         out |-> Values(first.b0, Len(bus)),
                         fin |-> <<power, light>>]
            IN  seen \in {WriteThenStore(w.arg, s.arg, first.q[1]),
                          StoreThenWrite(w.arg, s.arg, first.q[1])}

\* ------------------------------------------------------------------ C5
\* C5: a writeText that finds power clear returns 0 at once: it issues no
\* transport write, does not take the mutex and leaves power and light as
\* they are, whatever the length of its input.
C5_UnpoweredWriteIsNoOp ==
    [][\A t \in Callers :
        (pc[t] = "w_check" /\ ~power /\ pc'[t] # pc[t]) =>
            /\ pc'[t] = "idle"
            /\ Len(hist') = Len(hist) + 1
            /\ Last(hist').t = t
            /\ Last(hist').arg = arg[t]
            /\ Last(hist').ret = 0
            /\ Last(hist').n = 0
            /\ nwr'[t] = 0
            /\ bus' = bus
            /\ lock' = lock
            /\ power' = power
            /\ light' = light]_vars

\* A write of the over-long text has found power clear and returned 0, with
\* power and light still clear.
C5_Witness ==
    /\ ~power
    /\ ~light
    /\ \E i \in 1..Len(hist) :
        /\ IsWrite(hist[i].arg)
        /\ hist[i].arg.txt = TextLong
        /\ hist[i].pw = "off"
        /\ hist[i].ret = 0

\* ------------------------------------------------------------------ C6
\* C6: a writeText of n readable octets that finds power set sends, after its
\* PowerOn sequence, the first min(n, 16) octets as character data in input
\* order and nothing else, and returns min(n, 16); no octet from index 16 on
\* is ever fetched.
C6_WriteTruncates ==
    /\ \A t \in Callers : IsWrite(arg[t]) => idx[t] <= LCD_CELLS /\ count[t] <= LCD_CELLS
    /\ \A i \in 1..Len(hist) :
        LET h == hist[i]
            n == Len(h.arg.txt)
            m == IF n > LCD_CELLS THEN LCD_CELLS ELSE n
        IN  (Readable(h.arg) /\ h.pw = "on") =>
                /\ h.ret = m
                /\ h.n = 28 + 4 * m
                /\ h.to - h.lk = h.n
                /\ Writers(h.lk, h.to) \subseteq {h.t}
                /\ Values(h.lk + 28, h.to) = CharBytes(h.arg.txt, m)

\* A write of the over-long text has sent 16 octets and returned 16.
C6_Witness ==
    \E i \in 1..Len(hist) :
        /\ Readable(hist[i].arg)
        /\ Len(hist[i].arg.txt) > LCD_CELLS
        /\ hist[i].ret = LCD_CELLS
        /\ hist[i].n = 28 + 4 * LCD_CELLS
        /\ bus[hist[i].to].v = EncodeNibble((64 + LCD_CELLS) % 16, TRUE, TRUE, FALSE)

\* ------------------------------------------------------------------ C7
\* C7: a writeText of readable octets that runs right after a setPower(true)
\* has returned, with no other call in progress from its start to its return,
\* finds power set; the transport then holds the 28 writes of the PowerOn of
\* setPower, the same 28 writes again, and one quadruple of character data
\* per octet sent, in input order.
C7_WriteReinitialises ==
    \A i \in 1..(Len(hist) - 1) :
        LET s == hist[i]
            w == hist[i + 1]
            m == Min(Len(w.arg.txt), LCD_CELLS)
        IN  (/\ IsStore(s.arg) /\ Turns(s.arg) = "on"
             /\ Readable(w.arg) /\ w.at = i /\ w.alone /\ w.solo) =>
                /\ w.pw = "on"
                /\ w.ret = m
                /\ s.to = s.lk + 28
                /\ w.lk = s.to
                /\ w.to = w.lk + 28 + 4 * m
                /\ Values(s.lk, s.to) = OnBytes
                /\ Values(w.lk, w.lk + 28) = Values(s.lk, s.to)
                /\ Values(w.lk + 28, w.to) = CharBytes(w.arg.txt, m)

\* setPower(true) and then writeText("HI") have returned: 64 transport writes,
\* the last eight being 'H' and 'I' with bit 0 set.
C7_Witness ==
    /\ Len(hist) = 2
    /\ IsStore(hist[1].arg)
    /\ Turns(hist[1].arg) = "on"
    /\ hist[2].arg = [op |-> "write", txt |-> TextHI, ok |-> TRUE, rd |-> 2]
    /\ hist[2].at = 1
    /\ hist[2].alone
    /\ hist[2].solo
    /\ Len(bus) = 64
    /\ Values(56, 64) = <<77, 73, 141, 137, 77, 73, 157, 153>>

\* ------------------------------------------------------------------ C8
\* C8: whatever power and light were, when a setPower(true) has returned and
\* the setPower(false) started next, with nothing in between, has returned
\* too, power and light are both clear.
C8_OnThenOffIsOff ==
    \A i \in 1..(Len(hist) - 1) :
        LET a == hist[i]
            b == hist[i + 1]
        IN  (/\ IsStore(a.arg) /\ Turns(a.arg) = "on"
             /\ IsStore(b.arg) /\ Turns(b.arg) = "off"
             /\ b.lk = a.to) =>
                /\ a.fin = <<TRUE, TRUE>>
                /\ b.fin = <<FALSE, FALSE>>
                /\ (i + 1 = Len(hist) /\ lock = NoThread) => (~power /\ ~light)

\* PowerOn then PowerOff have run back to back, starting with power clear and
\* light set, and the mutex is free again.
C8_Witness ==
    /\ Len(hist) = 2
    /\ IsStore(hist[1].arg) /\ Turns(hist[1].arg) = "on"
    /\ IsStore(hist[2].arg) /\ Turns(hist[2].arg) = "off"
    /\ hist[1].lq = <<FALSE, TRUE>>
    /\ hist[2].lk = hist[1].to
    /\ lock = NoThread

\* ------------------------------------------------------------------ C9
\* C9: when a PowerOn sequence returns, power and light are both set, and
\* from then until a PowerOff sequence begins every value written to the
\* transport has bit 3 set: a thread that is not inside PowerOff writes only
\* values with the backlight bit, under any interleaving of the callers.
C9_BacklitUntilPowerOff ==
    [][\A t \in Threads :
        /\ (sq[t] = "on" /\ sq'[t] = "none") => (power' /\ light')
        /\ (nwr'[t] > nwr[t] /\ sq[t] # "off") =>
              /\ light
              /\ Bit(data'[t], 3) = 1
              /\ attached => bus' = Append(bus, [w |-> t, v |-> data'[t]])]_vars

\* After a PowerOff, a setPower(true) has returned with power and light set
\* and 28 backlit transport writes.
C9_Witness ==
    /\ Len(hist) = 2
    /\ IsStore(hist[1].arg) /\ Turns(hist[1].arg) = "off"
    /\ IsStore(hist[2].arg) /\ Turns(hist[2].arg) = "on"
    /\ hist[2].lq = <<FALSE, FALSE>>
    /\ hist[2].fin = <<TRUE, TRUE>>
    /\ power /\ light
    /\ \A j \in (hist[2].lk + 1)..hist[2].to : Bit(bus[j].v, 3) = 1

\* ----------------------------------------------------------------- C10
\* C10: a setPower(false) that takes the mutex while power is already clear
\* still runs the whole PowerOff sequence: Clear-Display, Return-Cursor-Home
\* and Power-Off-Display, 12 transport writes, and returns with power and
\* light clear.
C10_RedundantPowerOffRuns ==
    \A i \in 1..Len(hist) :
        LET h == hist[i] IN
        (IsStore(h.arg) /\ Turns(h.arg) = "off" /\ ~h.lq[1]) =>
            /\ h.n = 12
            /\ h.to = h.lk + 12
            /\ Values(h.lk, h.to) = OffBytes
            /\ h.fin = <<FALSE, FALSE>>

\* Two PowerOff calls in a row have returned, the second started with power
\* and light clear.
C10_Witness ==
    /\ Len(hist) = 2
    /\ IsStore(hist[1].arg) /\ Turns(hist[1].arg) = "off"
    /\ hist[2].arg = [op |-> "store", txt |-> <<"0">>]
    /\ hist[2].at = 1
    /\ hist[2].lq = <<FALSE, FALSE>>
    /\ Len(bus) = 24
    /\ ~power /\ ~light

\* ----------------------------------------------------------------- C11
\* C11: when a transport write of a writeText or setPower call fails, the
\* call issues no further transport write and returns an error result: no
\* call goes on writing after a failed write, and every call in which a write
\* failed has returned a negative value.
C11_TransportErrorPropagates ==
    /\ \A t \in Callers : err[t] # "ignored"
    /\ \A i \in 1..Len(hist) : hist[i].err # "none" => hist[i].ret < 0

\* ----------------------------------------------------------------- C12
\* The decimal number a text starts with, read off the text itself: the
\* longest run of digits after leading white space and at most one '-'.
FirstAfterSpace(txt) ==
    LET I == {i \in 1..Len(txt) : txt[i] \notin {" ", "\n", "\t"}}
    IN  IF I = {} THEN Len(txt) + 1 ELSE CHOOSE i \in I : \A j \in I : i <= j
Negative(txt) ==
    FirstAfterSpace(txt) <= Len(txt) /\ txt[FirstAfterSpace(txt)] = "-"
DigitRun(txt) ==
    LET from == FirstAfterSpace(txt) + (IF Negative(txt) THEN 1 ELSE 0)
        rest == SubSeq(txt, from, Len(txt))
        K == {k \in 0..Len(rest) : \A i \in 1..k : IsDigit(rest[i])}
    IN  SubSeq(rest, 1, CHOOSE k \in K : \A j \in K : j <= k)

ParsesAsDecimal(txt) == DigitRun(txt) # << >>
IsZero(ds) == \A i \in 1..Len(ds) : ds[i] = "0"

\* The digits of ds from its first non-zero digit on.
Significant(ds) ==
    LET I == {i \in 1..Len(ds) : ds[i] # "0"}
    IN  IF I = {} THEN << >> ELSE SubSeq(ds, CHOOSE i \in I : \A j \in I : i <= j, Len(ds))

\* The value of at most nine digits.
RECURSIVE Value9(_)
Value9(ds) == IF ds = << >> THEN 0 ELSE 10 * Value9(SubSeq(ds, 1, Len(ds) - 1)) + DigitVal(Last(ds))

\* The number the text starts with lies in the range of int:
\* -2147483648 .. 2147483647.
FitsInt(txt) ==
    LET ds == Significant(DigitRun(txt)) IN
    \/ Len(ds) <= 9
    \/ /\ Len(ds) = 10
       /\ \/ Value9(SubSeq(ds, 1, 9)) < 214748364
          \/ /\ Value9(SubSeq(ds, 1, 9)) = 214748364
             /\ DigitVal(ds[10]) <= (IF Negative(txt) THEN 8 ELSE 7)

\* 2^31, 2^32 and 2^32 + 1 in decimal.
Text2p31 == <<"2", "1", "4", "7", "4", "8", "3", "6", "4", "8">>
Text2p32 == <<"4", "2", "9", "4", "9", "6", "7", "2", "9", "6">>
Text2p32p1 == <<"4", "2", "9", "4", "9", "6", "7", "2", "9", "7">>

\* The lifecycle sequence a returned setPower call h has run, by what it put
\* on the transport and left in power and light.
Ran(h) ==
    IF Values(h.lk, h.to) = OnBytes /\ h.fin = <<TRUE, TRUE>> THEN "on"
    ELSE IF Values(h.lk, h.to) = OffBytes /\ h.fin = <<FALSE, FALSE>> THEN "off"
    ELSE "neither"

\* Every returned store has run exactly one whole sequence, PowerOff for a
\* text that is zero or does not parse, and reported its whole input.
StoreRunsOneSequence(h) ==
    /\ Ran(h) \in {"on", "off"}
    /\ h.n = h.to - h.lk
    /\ h.ret = Len(h.arg.txt)
    /\ ~ParsesAsDecimal(h.arg.txt) => Ran(h) = "off"
    /\ (ParsesAsDecimal(h.arg.txt) /\ IsZero(DigitRun(h.arg.txt))) => Ran(h) = "off"

\* C12 as stated: a store runs PowerOff for a text that parses as zero or
\* does not parse as a decimal integer, PowerOn for a text that parses as any
\* non-zero decimal integer, and reports the whole input as consumed.
C12_StoreMapsText ==
    \A i \in 1..Len(hist) :
        LET h == hist[i] IN
        IsStore(h.arg) =>
            /\ StoreRunsOneSequence(h)
            /\ (ParsesAsDecimal(h.arg.txt) /\ ~IsZero(DigitRun(h.arg.txt))) =>
                  Ran(h) = "on"

\* C12, amended: a store runs PowerOff for a text that parses as zero or does
\* not parse as a decimal integer, PowerOn for a text that parses as a
\* non-zero integer in the range of int, and reports the whole input as
\* consumed; a number outside the range of int counts as its low 32 bits, so
\* 2^32 runs PowerOff while 2^31 and 2^32 + 1 run PowerOn.
C12_StoreMapsIntText ==
    \A i \in 1..Len(hist) :
        LET h == hist[i] IN
        IsStore(h.arg) =>
            /\ StoreRunsOneSequence(h)
            /\ (/\ ParsesAsDecimal(h.arg.txt)
                /\ ~IsZero(DigitRun(h.arg.txt))
                /\ FitsInt(h.arg.txt)) => Ran(h) = "on"
            /\ h.arg.txt = Text2p32 => Ran(h) = "off"
            /\ h.arg.txt \in {Text2p31, Text2p32p1} => Ran(h) = "on"

\* A store of "x" to the powered, lit display has returned 1 after the twelve
\* writes of PowerOff.
C12_Witness ==
    \E i \in 1..Len(hist) :
        /\ hist[i].arg = [op |-> "store", txt |-> <<"x">>]
        /\ hist[i].lq = <<TRUE, TRUE>>
        /\ hist[i].ret = 1
        /\ hist[i].n = 12
        /\ Ran(hist[i]) = "off"
        /\ ~power /\ ~light

\* ----------------------------------------------------------------- C13
\* C13: a readText, in whatever state it is made and whatever the other
\* caller is in the middle of, returns 0 in one step that issues no transport
\* write, leaves the mutex, power and light as they are and moves no thread.
C13_ReadIsInert ==
    [][(Len(hist') = Len(hist) + 1 /\ Last(hist').arg = ReadArg) =>
          /\ Last(hist').ret = 0
          /\ Last(hist').n = 0
          /\ nwr'[Last(hist').t] = 0
          /\ bus' = bus
          /\ lock' = lock
          /\ power' = power
          /\ light' = light
          /\ pc' = pc
          /\ sq' = sq
          /\ sb' = sb]_vars

\* A readText has returned 0 while the other caller holds the mutex inside
\* PowerOff, between the clearing of light and the clearing of power.
C13_Witness ==
    /\ hist # << >>
    /\ Last(hist).arg = ReadArg
    /\ Last(hist).ret = 0
    /\ ~Last(hist).alone
    /\ lock \in Callers \ {Last(hist).t}
    /\ sq[lock] = "off"
    /\ power /\ ~light
    /\ Len(bus) = 10

\* ----------------------------------------------------------------- C14
\* C14: in every quiescent state (the attach has returned, no writeText or
\* setPower is in progress, the mutex is free), whatever calls have been made,
\* light equals power: the display is fully on or fully off.
C14_QuiescentFlagsAgree == Quiescent => (power = light)

\* A writeText that sent its text and then a setPower(false) have returned and
\* the driver is quiescent with power and light both clear.
C14_Witness ==
    /\ Quiescent
    /\ Len(hist) = 2
    /\ IsWrite(hist[1].arg) /\ hist[1].ret = 2
    /\ IsStore(hist[2].arg) /\ Turns(hist[2].arg) = "off"
    /\ <<power, light>> = <<FALSE, FALSE>>

\* ----------------------------------------------------------------- C15
\* The k-th byte sent after the first lo transport writes, put together from
\* its four writes, and whether those four writes are a well-formed transfer
\* of a command (register select clear, strobe set then clear, twice).
ByteAt(lo, k) ==
    16 * (bus[lo + 4 * k - 3].v \div 16) + (bus[lo + 4 * k - 1].v \div 16)
IsCommandAt(lo, k) ==
    /\ \A j \in 0..3 : Bit(bus[lo + 4 * k - j].v, 0) = 0
    /\ Bit(bus[lo + 4 * k - 3].v, 2) = 1
    /\ Bit(bus[lo + 4 * k - 1].v, 2) = 1
    /\ bus[lo + 4 * k - 2].v = bus[lo + 4 * k - 3].v - 4
    /\ bus[lo + 4 * k].v = bus[lo + 4 * k - 1].v - 4

\* The instruction of the display controller a command byte c encodes, by its
\* highest set bit: 0000 0001 clear display, 0000 001x return home, 0000 01DS
\* entry mode (D: increment, S: shift), 0000 1DCB display control (D: display,
\* C: cursor, B: blink), 0001 SRxx shift (S: display, R: right), 001L NFxx
\* function set (L: 8-bit, N: two rows, F: large font).
Instruction(c) ==
    CASE c = 1 -> <<"clear">>
      [] c \in 2..3 -> <<"home">>
      [] c \in 4..7 -> <<"entry", Bit(c, 1) = 1, Bit(c, 0) = 1>>
      [] c \in 8..15 -> <<"display", Bit(c, 2) = 1, Bit(c, 1) = 1, Bit(c, 0) = 1>>
      [] c \in 16..31 -> <<"shift", Bit(c, 3) = 1, Bit(c, 2) = 1>>
      [] c \in 32..63 -> <<"function", Bit(c, 4) = 1, Bit(c, 3) = 1, Bit(c, 2) = 1>>
      [] OTHER -> <<"address", c>>

\* The instructions of the seven bytes sent after the first lo writes.
SevenAfter(lo) == [k \in 1..7 |-> Instruction(ByteAt(lo, k))]

\* A returned call that ran PowerOn right after taking the mutex: a
\* setPower(true), or a writeText that found power set.
RanPowerOn(h) ==
    \/ IsStore(h.arg) /\ Turns(h.arg) = "on"
    \/ IsWrite(h.arg) /\ h.lk >= 0

\* C15 as stated: PowerOn sends seven commands, in this order: Clear-Display,
\* Return-Cursor-Home, Function-Set(4-bit, 2 rows), Entry-Mode(increment, no
\* shift), Display-Control(display on, no cursor), Display-Shift-Right,
\* Clear-Display.
C15_PowerOnEntryModeFirst ==
    \A i \in 1..Len(hist) :
        RanPowerOn(hist[i]) =>
            /\ hist[i].to - hist[i].lk >= 28
            /\ \A k \in 1..7 : IsCommandAt(hist[i].lk, k)
            /\ SevenAfter(hist[i].lk) =
                  << <<"clear">>, <<"home">>, <<"function", FALSE, TRUE, FALSE>>,
                     <<"entry", TRUE, FALSE>>, <<"display", TRUE, FALSE, FALSE>>,
                     <<"shift", TRUE, TRUE>>, <<"clear">> >>

\* C15, amended: PowerOn sends exactly seven commands, in this order:
\* Clear-Display, Return-Cursor-Home, Function-Set(4-bit, 2 rows),
\* Display-Control(display on, cursor on), Display-Control(display on, no
\* cursor), Entry-Mode(increment, no shift), Clear-Display: the bytes 01, 02,
\* 28, 0e, 0c, 06, 01.  The entry-mode command follows both display-control
\* commands and no shift command is sent; a setPower(true) sends nothing else.
C15_PowerOnCommandOrder ==
    \A i \in 1..Len(hist) :
        RanPowerOn(hist[i]) =>
            /\ hist[i].to - hist[i].lk >= 28
            /\ IsStore(hist[i].arg) => hist[i].to - hist[i].lk = 28
            /\ \A k \in 1..7 : IsCommandAt(hist[i].lk, k)
            /\ [k \in 1..7 |-> ByteAt(hist[i].lk, k)] = <<1, 2, 40, 14, 12, 6, 1>>
            /\ SevenAfter(hist[i].lk) =
                  << <<"clear">>, <<"home">>, <<"function", FALSE, TRUE, FALSE>>,
                     <<"display", TRUE, TRUE, FALSE>>, <<"display", TRUE, FALSE, FALSE>>,
                     <<"entry", TRUE, FALSE>>, <<"clear">> >>

\* A setPower(true) has returned: writes 13 to 16 of its 28 carry the byte 0e
\* and writes 21 to 24 the byte 06.
C15_Witness ==
    /\ Len(hist) = 1
    /\ hist[1].arg = [op |-> "store", txt |-> <<"1">>]
    /\ Len(bus) = 28
    /\ Values(12, 16) = <<12, 8, 236, 232>>
    /\ Values(20, 24) = <<12, 8, 108, 104>>

\* ----------------------------------------------------------------- C16
\* Of the 12 transport writes of a PowerOff the first 8, those of
\* Clear-Display and Return-Cursor-Home, carry the backlight bit, whatever
\* power and light were before, and the last 4, those of Power-Off-Display,
\* do not; from the first assignment of the sequence on, power stays set
\* until all 12 writes are out.
PowerOffWrites ==
    /\ \A t \in Callers :
        (sq[t] = "off" /\ step[t] >= 2) =>
            /\ power
            /\ nwr[t] <= 12
            /\ step[t] \in 3..5 => light
            /\ step[t] >= 6 => ~light
            /\ Len(bus) = info[t].lk + nwr[t]
            /\ \A j \in 1..nwr[t] : Bit(bus[info[t].lk + j].v, 3) = (IF j <= 8 THEN 1 ELSE 0)
    /\ \A i \in 1..Len(hist) :
        LET h == hist[i] IN
        (IsStore(h.arg) /\ Turns(h.arg) = "off") =>
            /\ h.to = h.lk + 12
            /\ [k \in 1..3 |-> ByteAt(h.lk, k)] =
                  <<CMD_LCD_CLEAR, CMD_RETURN_CURSOR, CMD_LCD_POWEROFF>>
            /\ \A j \in 1..8 : Bit(bus[h.lk + j].v, 3) = 1
            /\ \A j \in 9..12 : Bit(bus[h.lk + j].v, 3) = 0

\* C16 as stated: the writes of PowerOff are lit and unlit as above, power is
\* cleared only after the last of them, and power set with light clear is
\* seen only while a thread is inside PowerOff.
C16_DarkOnlyInPowerOff ==
    /\ PowerOffWrites
    /\ (power /\ ~light) => \E t \in Callers : sq[t] = "off"

\* C16, amended: the writes of PowerOff are lit and unlit as above, power is
\* cleared only after the last of them, and power set with light clear is
\* seen only while a thread is inside a lifecycle sequence: inside PowerOff
\* from the clearing of light to the clearing of power or between its first
\* two assignments, or inside PowerOn between its first two assignments.
C16_PowerOffBacklight ==
    /\ PowerOffWrites
    /\ (power /\ ~light) =>
          \E t \in Callers : \/ sq[t] = "off" /\ step[t] \in {2, 6, 7}
                             \/ sq[t] = "on" /\ step[t] = 2
    /\ \A t \in Callers : (sq[t] = "on" /\ step[t] >= 3) => light

\* A PowerOff that began with power and light clear is inside its
\* Power-Off-Display command: 8 lit writes and 2 unlit ones are out, power is
\* set and light is clear.
C16_Witness ==
    \E t \in Callers :
        /\ sq[t] = "off"
        /\ step[t] = 6
        /\ info[t].lq = <<FALSE, FALSE>>
        /\ nwr[t] = 10
        /\ power /\ ~light
        /\ \A j \in 1..8 : Bit(bus[info[t].lk + j].v, 3) = 1
        /\ Bit(bus[info[t].lk + 10].v, 3) = 0

\* ----------------------------------------------------------------- C17
\* C17: a writeText that took the mutex has released it when it returns, on
\* every return path: no caller that is outside every call holds the mutex
\* (so that a later call can take it and complete).
C17_WriteReleasesLock == \A t \in Callers : pc[t] = "idle" => lock # t

\* ----------------------------------------------------------------- C18
\* A thread is inside a setPower call.
InStore(t) == pc[t] \in {"s_lock", "s_scan", "s_unlock"}

\* The i-th returned call is a setPower(false) and no setPower call has been
\* in progress or has returned since it returned.
LastStoreIsOff(i) ==
    /\ IsStore(hist[i].arg)
    /\ Turns(hist[i].arg) = "off"
    /\ \A j \in (i + 1)..Len(hist) : ~IsStore(hist[j].arg)
    /\ \A t \in Callers : ~InStore(t)

\* C18: after a setPower(false) has returned, and as long as no other
\* setPower call is made, power and light are clear and the transport has
\* seen no write since that return, whatever writeText calls were started
\* before, during or after it.
C18_OffStaysOff ==
    \A i \in 1..Len(hist) :
        LastStoreIsOff(i) =>
            /\ ~power
            /\ ~light
            /\ Len(bus) = hist[i].to

\* ----------------------------------------------------------------- C19
\* No setPower call has been made so far.
NoStoreYet ==
    /\ \A t \in Callers : ~IsStore(arg[t])
    /\ \A i \in 1..Len(hist) : ~IsStore(hist[i].arg)

\* C19: lcd1602a_probe clears power and light and then runs PowerOn: before
\* its PowerOn both flags are clear, and once the attach has completed, and
\* until a setPower call is made, both are set.  A writeText of readable
\* octets started after the attach with no setPower before or during it
\* finds power set, sends its text after its PowerOn and returns the number of
\* octets, not 0.
C19_AttachLeavesOn ==
    /\ pc["probe"] \in {"p_register", "p_poweron", "p_failed"} => (~power /\ ~light)
    /\ (attached /\ NoStoreYet) => (power /\ light)
    /\ \A i \in 1..Len(hist) :
        LET h == hist[i]
            m == Min(Len(h.arg.txt), LCD_CELLS)
        IN  (/\ Readable(h.arg) /\ h.alone /\ h.solo
             /\ \A j \in 1..(i - 1) : ~IsStore(hist[j].arg)) =>
                /\ h.pw = "on"
                /\ h.ret = m
                /\ h.n = 28 + 4 * m
                /\ Values(h.lk + 28, h.to) = CharBytes(h.arg.txt, m)

\* The attach has completed and the first call made, a writeText of "HI", has
\* returned 2: the transport has seen the 28 writes of its PowerOn and the 8
\* writes of 'H' and 'I'.
C19_Witness ==
    /\ attached
    /\ calls = 1
    /\ Len(hist) = 1
    /\ hist[1].arg = [op |-> "write", txt |-> TextHI, ok |-> TRUE, rd |-> 2]
    /\ hist[1].alone
    /\ hist[1].ret = 2
    /\ Len(bus) = 36
    /\ Values(28, 36) = CharBytes(TextHI, 2)

\* ----------------------------------------------------------------- C20
\* C20: in every reachable state, between any two statements of PowerOn and
\* PowerOff and under every interleaving of setPower and writeText callers,
\* light set implies power set.
C20_LightImpliesPower == light => power

\* A setPower(true) that took the mutex with power and light clear is between
\* its assignment to power and its assignment to light.
C20_Witness ==
    \E t \in Callers :
        /\ IsStore(arg[t])
        /\ sq[t] = "on"
        /\ step[t] = 2
        /\ info[t].lq = <<FALSE, FALSE>>
        /\ power
        /\ ~light

====
